---- MODULE Spec2Model ----
(***************************************************************************)
(* LocalizeAssetsPlugin (webpack-localize-assets-plugin): the placeholder  *)
(* codec, the filename template resolver, the locale validator, the source *)
(* scanner, the asset localizer and the localization pass.                 *)
(*                                                                         *)
(* Strings are sequences of one-character strings.  Offsets into a text    *)
(* are 0-based, as in the source; sequences are 1-based.                   *)
(***************************************************************************)
EXTENDS Integers, Sequences, FiniteSets, TLC

(***************************************************************************)
(* Bounds of the model.                                                    *)
(***************************************************************************)
MaxCalls == 2
MaxPieces == 3
MaxInterpolations == 2

(***************************************************************************)
(* String primitives of the language (methods of String).                   *)
(***************************************************************************)
Slice(s, from, to) ==
    IF to <= from THEN <<>> ELSE SubSeq(s, from + 1, to)

MatchAt(s, sub, i) ==
    /\ i >= 0
    /\ i + Len(sub) <= Len(s)
    /\ \A k \in 1..Len(sub) : s[i + k] = sub[k]

\* s.indexOf(sub, from): the first offset >= from at which sub occurs, or -1.
IndexOf(s, sub, from) ==
    LET hits == {i \in from..(Len(s) - Len(sub)) : MatchAt(s, sub, i)}
    IN  IF hits = {} THEN -1 ELSE CHOOSE i \in hits : \A j \in hits : i <= j

Includes(s, sub) == IndexOf(s, sub, 0) # -1

EndsWith(s, sub) == Len(sub) <= Len(s) /\ MatchAt(s, sub, Len(s) - Len(sub))

RECURSIVE Flatten(_)
Flatten(ss) == IF ss = <<>> THEN <<>> ELSE Head(ss) \o Flatten(Tail(ss))

\* The replacement text of String.prototype.replace: $$, $&, $-backtick and
\* $-apostrophe are patterns; with no capture group in the pattern every
\* other $ is literal.  The backtick character is written "U+0060".
RECURSIVE ExpandReplacement(_, _, _, _)
ExpandReplacement(rep, matched, before, after) ==
    IF rep = <<>> THEN <<>>
    ELSE IF rep[1] = "$" /\ Len(rep) >= 2 /\ rep[2] \in {"$", "&", "U+0060", "'"}
         THEN (CASE rep[2] = "$" -> <<"$">>
                 [] rep[2] = "&" -> matched
                 [] rep[2] = "U+0060" -> before
                 [] rep[2] = "'" -> after)
              \o ExpandReplacement(Slice(rep, 2, Len(rep)), matched, before, after)
         ELSE <<rep[1]>> \o ExpandReplacement(Tail(rep), matched, before, after)

\* s.replace(/pat/g, rep) for a pattern that matches the literal text pat.
RECURSIVE ReplaceFrom(_, _, _, _)
ReplaceFrom(s, pat, rep, i) ==
    IF i >= Len(s) THEN <<>>
    ELSE IF MatchAt(s, pat, i)
         THEN ExpandReplacement(rep, pat, Slice(s, 0, i), Slice(s, i + Len(pat), Len(s)))
              \o ReplaceFrom(s, pat, rep, i + Len(pat))
         ELSE <<s[i + 1]>> \o ReplaceFrom(s, pat, rep, i + 1)

ReplaceAll(s, pat, rep) == ReplaceFrom(s, pat, rep, 0)

\* JSON.stringify of a string of printable ASCII: quoted, " and \ escaped.
RECURSIVE JsonEscape(_)
JsonEscape(s) ==
    IF s = <<>> THEN <<>>
    ELSE (IF s[1] \in {"\"", "\\"} THEN <<"\\", s[1]>> ELSE <<s[1]>>)
         \o JsonEscape(Tail(s))

JsonStringify(s) == <<"\"">> \o JsonEscape(s) \o <<"\"">>

(***************************************************************************)
(* Module constants.                                                       *)
(***************************************************************************)
LocaleMarker == <<"[", "l", "o", "c", "a", "l", "e", "]">>

\* '[locale:' + sha256('locale-placeholder').slice(0, 8) + ']'
fileNameTemplatePlaceholder ==
    <<"[", "l", "o", "c", "a", "l", "e", ":",
      "b", "6", "4", "b", "2", "e", "3", "f", "]">>

\* The pattern is the placeholder with its brackets escaped: it matches the
\* placeholder literally.
fileNameTemplatePlaceholderPattern == fileNameTemplatePlaceholder

\* sha256('localize-assets-plugin-placeholder-prefix').slice(0, 8)
placeholderPrefix == <<"b", "0", "a", "9", "2", "1", "2", "3">>

placeholderSuffix == <<"|">>

isJsFile(name) == EndsWith(name, <<".", "j", "s">>)

isSourceMap(name) == EndsWith(name, <<".", "j", "s", ".", "m", "a", "p">>)

(***************************************************************************)
(* JavaScript values: undefined, strings, numbers, arrays, functions and    *)
(* objects, and their truthiness as the operator || and the test if (x)    *)
(* see it.  An object carries the text JSON.stringify gives for it.        *)
(***************************************************************************)
Undefined == [t |-> "undefined"]

Function == [t |-> "function"]

Obj(json) == [t |-> "object", json |-> json]

Str(s) == [t |-> "string", v |-> s]

Num(n) == [t |-> "number", v |-> n]

Arr(a) == [t |-> "array", v |-> a]

Truthy(x) ==
    CASE x.t = "undefined" -> FALSE
      [] x.t = "string" -> x.v # <<>>
      [] x.t = "number" -> x.v # 0
      [] x.t = "array" -> TRUE
      [] x.t = "function" -> TRUE
      [] x.t = "object" -> TRUE

\* a || b
OrElse(a, b) == IF Truthy(a) THEN a ELSE b

Digits == <<"0", "1", "2", "3", "4", "5", "6", "7", "8", "9">>

\* The decimal text of a number below one hundred.
NumberText(n) ==
    IF n < 10 THEN <<Digits[n + 1]>>
    ELSE <<Digits[(n \div 10) + 1], Digits[(n % 10) + 1]>>

\* JSON.stringify(x): the text, as a string value, of a string, a number or
\* an object; undefined for a function and for undefined.
JsonStringifyValue(x) ==
    CASE x.t = "number" -> Str(NumberText(x.v))
      [] x.t = "string" -> Str(JsonStringify(x.v))
      [] x.t = "object" -> Str(x.json)
      [] x.t = "function" -> Undefined
      [] x.t = "undefined" -> Undefined

(***************************************************************************)
(* Placeholder codec: base64 over the string keys of printable ASCII.      *)
(***************************************************************************)
\* The characters with codes 32..126, in code order.
Printable ==
    <<
      " ", "!", "\"", "#", "$", "%", "&", "'", "(", ")", "*", "+",
      ",", "-", ".", "/", "0", "1", "2", "3", "4", "5", "6", "7",
      "8", "9", ":", ";", "<", "=", ">", "?", "@", "A", "B", "C",
      "D", "E", "F", "G", "H", "I", "J", "K", "L", "M", "N", "O",
      "P", "Q", "R", "S", "T", "U", "V", "W", "X", "Y", "Z", "[",
      "\\", "]", "^", "_", "U+0060", "a", "b", "c", "d", "e", "f", "g",
      "h", "i", "j", "k", "l", "m", "n", "o", "p", "q", "r", "s",
      "t", "u", "v", "w", "x", "y", "z", "{", "|", "}", "~"
    >>

CharCode(c) == 31 + (CHOOSE i \in 1..Len(Printable) : Printable[i] = c)

Base64Alphabet ==
    <<
      "A", "B", "C", "D", "E", "F", "G", "H", "I", "J", "K", "L",
      "M", "N", "O", "P", "Q", "R", "S", "T", "U", "V", "W", "X",
      "Y", "Z", "a", "b", "c", "d", "e", "f", "g", "h", "i", "j",
      "k", "l", "m", "n", "o", "p", "q", "r", "s", "t", "u", "v",
      "w", "x", "y", "z", "0", "1", "2", "3", "4", "5", "6", "7",
      "8", "9", "+", "/"
    >>

Sextet(c) == (CHOOSE i \in 1..Len(Base64Alphabet) : Base64Alphabet[i] = c) - 1

RECURSIVE EncodeBytes(_)
EncodeBytes(b) ==
    IF Len(b) = 0 THEN <<>>
    ELSE IF Len(b) = 1
         THEN <<Base64Alphabet[(b[1] \div 4) + 1],
                Base64Alphabet[((b[1] % 4) * 16) + 1], "=", "=">>
    ELSE IF Len(b) = 2
         THEN <<Base64Alphabet[(b[1] \div 4) + 1],
                Base64Alphabet[((b[1] % 4) * 16) + (b[2] \div 16) + 1],
                Base64Alphabet[((b[2] % 16) * 4) + 1], "=">>
    ELSE <<Base64Alphabet[(b[1] \div 4) + 1],
           Base64Alphabet[((b[1] % 4) * 16) + (b[2] \div 16) + 1],
           Base64Alphabet[((b[2] % 16) * 4) + (b[3] \div 64) + 1],
           Base64Alphabet[(b[3] % 64) + 1]>>
         \o EncodeBytes(SubSeq(b, 4, Len(b)))

\* base64.encode(string)
base64encode(key) == EncodeBytes([i \in 1..Len(key) |-> CharCode(key[i])])

RECURSIVE DecodeSextets(_)
DecodeSextets(x) ==
    IF Len(x) < 2 THEN <<>>
    ELSE IF Len(x) = 2 THEN <<(x[1] * 4) + (x[2] \div 16)>>
    ELSE IF Len(x) = 3
         THEN <<(x[1] * 4) + (x[2] \div 16), ((x[2] % 16) * 16) + (x[3] \div 4)>>
    ELSE <<(x[1] * 4) + (x[2] \div 16), ((x[2] % 16) * 16) + (x[3] \div 4),
           ((x[3] % 4) * 64) + x[4]>>
         \o DecodeSextets(SubSeq(x, 5, Len(x)))

RECURSIVE StripPadding(_)
StripPadding(token) ==
    IF token # <<>> /\ token[Len(token)] = "="
    THEN StripPadding(SubSeq(token, 1, Len(token) - 1))
    ELSE token

\* base64.decode(token): the key whose encoding the token is; a span that does
\* not round-trip through the encoding is invalid, which is the empty string
\* (the falsy value the scanner tests for).
base64decode(token) ==
    LET body == StripPadding(token)
    IN  IF \E i \in 1..Len(body) :
               \A j \in 1..Len(Base64Alphabet) : Base64Alphabet[j] # body[i]
        THEN <<>>
        ELSE LET bytes == DecodeSextets([i \in 1..Len(body) |-> Sextet(body[i])])
             IN  IF /\ \A i \in 1..Len(bytes) : bytes[i] >= 32 /\ bytes[i] <= 126
                    /\ EncodeBytes(bytes) = token
                 THEN [i \in 1..Len(bytes) |-> Printable[bytes[i] - 31]]
                 ELSE <<>>

(***************************************************************************)
(* Source scanner.                                                         *)
(***************************************************************************)
RECURSIVE Ascending(_)
Ascending(S) ==
    IF S = {} THEN <<>>
    ELSE LET m == CHOOSE i \in S : \A j \in S : i <= j
         IN  <<m>> \o Ascending(S \ {m})

\* findSubstringLocations(string, substring): every offset at which the
\* substring occurs, in increasing order.
findSubstringLocations(string, substring) ==
    Ascending({i \in 0..(Len(string) - Len(substring)) : MatchAt(string, substring, i)})

\* As LocateAt, but a location is pushed for every span that ends in the
\* suffix, whether or not it decodes to a key.
RECURSIVE LocateAtUnchecked(_, _)
LocateAtUnchecked(sourceString, possibleLocations) ==
    IF possibleLocations = <<>> THEN <<>>
    ELSE LET placeholderIndex == Head(possibleLocations)
             placeholderStartIndex == placeholderIndex + Len(placeholderPrefix)
             placeholderSuffixIndex ==
                 IndexOf(sourceString, placeholderSuffix, placeholderStartIndex)
             rest == LocateAtUnchecked(sourceString, Tail(possibleLocations))
         IN  IF placeholderSuffixIndex = -1 THEN rest
             ELSE <<[stringKey |->
                         base64decode(Slice(sourceString, placeholderStartIndex,
                                            placeholderSuffixIndex)),
                     index |-> placeholderIndex,
                     endIndex |-> placeholderSuffixIndex + Len(placeholderSuffix)]>>
                  \o rest

RECURSIVE LocateAt(_, _)
LocateAt(sourceString, possibleLocations) ==
    IF possibleLocations = <<>> THEN <<>>
    ELSE LET placeholderIndex == Head(possibleLocations)
             placeholderStartIndex == placeholderIndex + Len(placeholderPrefix)
             placeholderSuffixIndex ==
                 IndexOf(sourceString, placeholderSuffix, placeholderStartIndex)
             rest == LocateAt(sourceString, Tail(possibleLocations))
         IN  IF placeholderSuffixIndex = -1 THEN rest
             ELSE LET placeholder ==
                          Slice(sourceString, placeholderStartIndex, placeholderSuffixIndex)
                      stringKey == base64decode(placeholder)
                  IN  IF Truthy(Str(stringKey))
                      THEN <<[stringKey |-> stringKey,
                              index |-> placeholderIndex,
                              endIndex |-> placeholderSuffixIndex + Len(placeholderSuffix)]>>
                           \o rest
                      ELSE rest

locatePlaceholders(sourceString) ==
    LocateAt(sourceString, findSubstringLocations(sourceString, placeholderPrefix))

(***************************************************************************)
(* Locale catalogs.  options.locales is an object: a sequence of entries   *)
(* [name, data] in the order of their creation.  A locale's data is a      *)
(* record of strings, [kind |-> "record", entries |-> <<[key, value],      *)
(* ...>>], or a string, [kind |-> "string", text |-> s] (LocalesSchema     *)
(* admits both).  Object.keys lists array indices first.                   *)
(***************************************************************************)
Catalog(entries) == [kind |-> "record", entries |-> entries]

Flat(text) == [kind |-> "string", text |-> text]

\* The offset a property name denotes in a string shorter than ten
\* characters, or -1.
StringIndex(text, key) ==
    IF Len(key) = 1 /\ \E d \in 1..10 : Digits[d] = key[1] /\ d - 1 < Len(text)
    THEN (CHOOSE d \in 1..10 : Digits[d] = key[1]) - 1
    ELSE -1

LengthKey == <<"l", "e", "n", "g", "t", "h">>

\* hasOwnProp(object, key)
hasOwnProp(localeData, key) ==
    IF localeData.kind = "record"
    THEN \E i \in 1..Len(localeData.entries) : localeData.entries[i].key = key
    ELSE StringIndex(localeData.text, key) # -1 \/ key = LengthKey

\* The names of the methods every object inherits from Object.prototype.
ObjectPrototypeMethods ==
    { <<"c", "o", "n", "s", "t", "r", "u", "c", "t", "o", "r">>,
      <<"_", "_", "d", "e", "f", "i", "n", "e", "G", "e", "t", "t", "e", "r", "_", "_">>,
      <<"_", "_", "d", "e", "f", "i", "n", "e", "S", "e", "t", "t", "e", "r", "_", "_">>,
      <<"h", "a", "s", "O", "w", "n", "P", "r", "o", "p", "e", "r", "t", "y">>,
      <<"_", "_", "l", "o", "o", "k", "u", "p", "G", "e", "t", "t", "e", "r", "_", "_">>,
      <<"_", "_", "l", "o", "o", "k", "u", "p", "S", "e", "t", "t", "e", "r", "_", "_">>,
      <<"i", "s", "P", "r", "o", "t", "o", "t", "y", "p", "e", "O", "f">>,
      <<"p", "r", "o", "p", "e", "r", "t", "y", "I", "s", "E", "n", "u", "m", "e", "r", "a", "b", "l", "e">>,
      <<"t", "o", "S", "t", "r", "i", "n", "g">>,
      <<"v", "a", "l", "u", "e", "O", "f">>,
      <<"t", "o", "L", "o", "c", "a", "l", "e", "S", "t", "r", "i", "n", "g">> }

\* The names of the methods a string inherits from String.prototype besides
\* those of Object.prototype.
StringPrototypeMethods ==
    { <<"a", "n", "c", "h", "o", "r">>,
      <<"a", "t">>,
      <<"b", "i", "g">>,
      <<"b", "l", "i", "n", "k">>,
      <<"b", "o", "l", "d">>,
      <<"c", "h", "a", "r", "A", "t">>,
      <<"c", "h", "a", "r", "C", "o", "d", "e", "A", "t">>,
      <<"c", "o", "d", "e", "P", "o", "i", "n", "t", "A", "t">>,
      <<"c", "o", "n", "c", "a", "t">>,
      <<"e", "n", "d", "s", "W", "i", "t", "h">>,
      <<"f", "o", "n", "t", "c", "o", "l", "o", "r">>,
      <<"f", "o", "n", "t", "s", "i", "z", "e">>,
      <<"f", "i", "x", "e", "d">>,
      <<"i", "n", "c", "l", "u", "d", "e", "s">>,
      <<"i", "n", "d", "e", "x", "O", "f">>,
      <<"i", "s", "W", "e", "l", "l", "F", "o", "r", "m", "e", "d">>,
      <<"i", "t", "a", "l", "i", "c", "s">>,
      <<"l", "a", "s", "t", "I", "n", "d", "e", "x", "O", "f">>,
      <<"l", "i", "n", "k">>,
      <<"l", "o", "c", "a", "l", "e", "C", "o", "m", "p", "a", "r", "e">>,
      <<"m", "a", "t", "c", "h">>,
      <<"m", "a", "t", "c", "h", "A", "l", "l">>,
      <<"n", "o", "r", "m", "a", "l", "i", "z", "e">>,
      <<"p", "a", "d", "E", "n", "d">>,
      <<"p", "a", "d", "S", "t", "a", "r", "t">>,
      <<"r", "e", "p", "e", "a", "t">>,
      <<"r", "e", "p", "l", "a", "c", "e">>,
      <<"r", "e", "p", "l", "a", "c", "e", "A", "l", "l">>,
      <<"s", "e", "a", "r", "c", "h">>,
      <<"s", "l", "i", "c", "e">>,
      <<"s", "m", "a", "l", "l">>,
      <<"s", "p", "l", "i", "t">>,
      <<"s", "t", "r", "i", "k", "e">>,
      <<"s", "u", "b">>,
      <<"s", "u", "b", "s", "t", "r">>,
      <<"s", "u", "b", "s", "t", "r", "i", "n", "g">>,
      <<"s", "u", "p">>,
      <<"s", "t", "a", "r", "t", "s", "W", "i", "t", "h">>,
      <<"t", "o", "W", "e", "l", "l", "F", "o", "r", "m", "e", "d">>,
      <<"t", "r", "i", "m">>,
      <<"t", "r", "i", "m", "S", "t", "a", "r", "t">>,
      <<"t", "r", "i", "m", "L", "e", "f", "t">>,
      <<"t", "r", "i", "m", "E", "n", "d">>,
      <<"t", "r", "i", "m", "R", "i", "g", "h", "t">>,
      <<"t", "o", "L", "o", "c", "a", "l", "e", "L", "o", "w", "e", "r", "C", "a", "s", "e">>,
      <<"t", "o", "L", "o", "c", "a", "l", "e", "U", "p", "p", "e", "r", "C", "a", "s", "e">>,
      <<"t", "o", "L", "o", "w", "e", "r", "C", "a", "s", "e">>,
      <<"t", "o", "U", "p", "p", "e", "r", "C", "a", "s", "e">> }

ProtoKey == <<"_", "_", "p", "r", "o", "t", "o", "_", "_">>

\* The value of a property the object does not own, found on its prototype
\* chain: a method, the prototype itself under __proto__ (Object.prototype
\* is stringified as {}, String.prototype as the empty string it wraps), or
\* undefined.
Inherited(localeData, key) ==
    IF key \in ObjectPrototypeMethods THEN Function
    ELSE IF localeData.kind = "string" /\ key \in StringPrototypeMethods THEN Function
    ELSE IF key = ProtoKey
         THEN (IF localeData.kind = "string" THEN Obj(<<"\"", "\"">>)
               ELSE Obj(<<"{", "}">>))
    ELSE Undefined

\* localeData[key]: an own property, or one of the prototype chain.
Get(localeData, key) ==
    IF localeData.kind = "record"
    THEN IF hasOwnProp(localeData, key)
         THEN Str(localeData.entries[CHOOSE i \in 1..Len(localeData.entries) :
                                         localeData.entries[i].key = key].value)
         ELSE Inherited(localeData, key)
    ELSE IF StringIndex(localeData.text, key) # -1
         THEN Str(<<localeData.text[StringIndex(localeData.text, key) + 1]>>)
         ELSE IF key = LengthKey THEN Num(Len(localeData.text))
         ELSE Inherited(localeData, key)

IsDigit(c) == \E d \in 1..10 : Digits[d] = c

DigitValue(c) == (CHOOSE d \in 1..10 : Digits[d] = c) - 1

\* 2^32 - 2, the greatest array index.
MaxArrayIndex == <<"4", "2", "9", "4", "9", "6", "7", "2", "9", "4">>

\* a < b for canonical numerals: the shorter is the smaller, and of two of
\* one length the one with the smaller digit where they first differ.
LessIndex(a, b) ==
    \/ Len(a) < Len(b)
    \/ /\ Len(a) = Len(b)
       /\ \E i \in 1..Len(a) :
             /\ DigitValue(a[i]) < DigitValue(b[i])
             /\ \A j \in 1..(i - 1) : a[j] = b[j]

\* The key is an array index: the canonical numeral of an integer from 0 to
\* 2^32 - 2.
IsArrayIndex(key) ==
    /\ key # <<>>
    /\ \A i \in 1..Len(key) : IsDigit(key[i])
    /\ Len(key) = 1 \/ key[1] # "0"
    /\ Len(key) <= Len(MaxArrayIndex)
    /\ key = MaxArrayIndex \/ LessIndex(key, MaxArrayIndex)

RECURSIVE SortIndices(_)
SortIndices(S) ==
    IF S = {} THEN <<>>
    ELSE LET m == CHOOSE a \in S : \A b \in S \ {a} : LessIndex(a, b)
         IN  <<m>> \o SortIndices(S \ {m})

RECURSIVE NamesOf(_)
NamesOf(keys) ==
    IF keys = <<>> THEN <<>>
    ELSE (IF IsArrayIndex(Head(keys)) THEN <<>> ELSE <<Head(keys)>>) \o NamesOf(Tail(keys))

\* The order in which an object, whose properties were created in the order
\* keys, lists them: the array indices in ascending order, then the other
\* names in the order of their creation.
OwnPropertyKeys(keys) ==
    SortIndices({keys[i] : i \in {j \in 1..Len(keys) : IsArrayIndex(keys[j])}})
    \o NamesOf(keys)

\* Object.keys(localeData)
ObjectKeys(localeData) ==
    IF localeData.kind = "record"
    THEN OwnPropertyKeys([i \in 1..Len(localeData.entries) |-> localeData.entries[i].key])
    ELSE [i \in 1..Len(localeData.text) |-> <<Digits[i]>>]

\* options.locales[locale]
LocaleData(locales, locale) ==
    locales[CHOOSE i \in 1..Len(locales) : locales[i].name = locale].data

HasLocale(locales, locale) == \E i \in 1..Len(locales) : locales[i].name = locale

\* OptionsSchema.parse(options): accepted or thrown.  The schema names the
\* source-map subset sourceMapForLocales.
OptionsSchemaParse(o) ==
    /\ Len(o.locales) > 0
    /\ \/ ~Truthy(o.sourceMapForLocales)
       \/ \A i \in 1..Len(o.sourceMapForLocales.v) :
              HasLocale(o.locales, o.sourceMapForLocales.v[i])

(***************************************************************************)
(* State.                                                                  *)
(***************************************************************************)
VARIABLES
    options,            \* this.options
    localeNames,        \* this.localeNames
    singleLocale,       \* this.singleLocale
    validatedLocales,   \* this.validatedLocales
    trackStringKeys,    \* this.trackStringKeys, in insertion order
    phase,              \* where the build stands
    outputOptions,      \* compilation.outputOptions
    calls,              \* the translation calls the parser has handed over
    deps,               \* the constant dependencies set on call expressions
    warnings,           \* compilation.warnings
    errors,             \* errors thrown out of the plugin's handlers
    moduleWarnings,     \* warnings added to modules
    passRegistered,     \* generateLocalizedAssets is tapped on the asset hook
    assets,             \* compilation.assets, in insertion order
    work,               \* the pass: one record per asset callback
    deleted,            \* names of the assets deleted
    scan,               \* a text under the scanner and the localizer
    resolved            \* a path under the filename template resolver

vars == <<options, localeNames, singleLocale, validatedLocales, trackStringKeys,
          phase, outputOptions, calls, deps, warnings, errors, moduleWarnings,
          passRegistered, assets, work, deleted, scan, resolved>>

pluginVars == <<options, localeNames, singleLocale>>

compileVars == <<validatedLocales, trackStringKeys, calls, deps, warnings,
                 errors, moduleWarnings>>

passVars == <<passRegistered, assets, work, deleted>>

(***************************************************************************)
(* Filename template resolver.                                             *)
(***************************************************************************)
\* this.singleLocale ?? fileNameTemplatePlaceholder
replaceWith ==
    IF singleLocale.t = "undefined" THEN fileNameTemplatePlaceholder
    ELSE singleLocale.v

\* The function tapped on the assetPath hook.  A path is a string or a
\* function; a function is passed through.
interpolate(path) ==
    IF path.t = "string" THEN Str(ReplaceAll(path.v, LocaleMarker, replaceWith))
    ELSE path

(***************************************************************************)
(* Locale validator.                                                       *)
(***************************************************************************)
RECURSIVE MissingIn(_, _, _)
MissingIn(locales, names, stringKey) ==
    IF names = <<>> THEN <<>>
    ELSE (IF hasOwnProp(LocaleData(locales, Head(names)), stringKey)
          THEN <<>> ELSE <<Head(names)>>)
         \o MissingIn(locales, Tail(names), stringKey)

missingFromLocales(stringKey) == MissingIn(options.locales, localeNames, stringKey)

MissingError(stringKey, missing) ==
    [kind |-> "missing", stringKey |-> stringKey, locales |-> missing]

UnusedError(stringKey) == [kind |-> "unused", stringKey |-> stringKey]

\* As validateLocale, but a missing key is only ever warned of.
validateLocaleNeverThrows(stringKey) ==
    LET missing == missingFromLocales(stringKey)
        error == MissingError(stringKey, missing)
        same == [validatedLocales |-> validatedLocales, warnings |-> warnings,
                 threw |-> FALSE, error |-> error]
    IN  IF stringKey \in validatedLocales THEN same
        ELSE IF missing = <<>>
             THEN [same EXCEPT !.validatedLocales = validatedLocales \cup {stringKey}]
        ELSE [same EXCEPT !.validatedLocales = validatedLocales \cup {stringKey},
                          !.warnings = Append(warnings, error)]

\* validateLocale(compilation, stringKey): the validated set and the warnings
\* it leaves, and the error it throws (threw).
validateLocale(stringKey) ==
    LET missing == missingFromLocales(stringKey)
        error == MissingError(stringKey, missing)
        same == [validatedLocales |-> validatedLocales, warnings |-> warnings,
                 threw |-> FALSE, error |-> error]
    IN  IF stringKey \in validatedLocales THEN same
        ELSE IF missing = <<>>
             THEN [same EXCEPT !.validatedLocales = validatedLocales \cup {stringKey}]
        ELSE IF options.throwOnMissing
             THEN [same EXCEPT !.validatedLocales = validatedLocales \cup {stringKey},
                               !.threw = TRUE]
        ELSE [same EXCEPT !.validatedLocales = validatedLocales \cup {stringKey},
                          !.warnings = Append(warnings, error)]

(***************************************************************************)
(* Asset localizer.  MagicString keeps the original text and a set of      *)
(* overwrites against original offsets; overwriting across an earlier,     *)
(* different overwrite throws.  So does slicing the text JSON.stringify    *)
(* gives when it gives none (a TypeError).                                 *)
(***************************************************************************)
Overwrite(start, end, content) == [start |-> start, end |-> end, content |-> content]

EditsClash(edits) ==
    \E i, j \in 1..Len(edits) :
        /\ i < j
        /\ <<edits[i].start, edits[i].end>> # <<edits[j].start, edits[j].end>>
        /\ edits[i].start < edits[j].end
        /\ edits[j].start < edits[i].end

\* magicStringInstance.toString()
RECURSIVE ApplyEdits(_, _, _)
ApplyEdits(source, edits, i) ==
    IF i >= Len(source) THEN <<>>
    ELSE LET at == {k \in 1..Len(edits) : edits[k].start = i}
         IN  IF at = {} THEN <<source[i + 1]>> \o ApplyEdits(source, edits, i + 1)
             ELSE LET k == CHOOSE m \in at : \A n \in at : n <= m
                  IN  edits[k].content \o ApplyEdits(source, edits, edits[k].end)

\* JSON.stringify(localeData[stringKey] || stringKey).slice(1, -1): the text,
\* or the TypeError of slicing undefined (threw).
localizedString(localeData, stringKey) ==
    LET text == JsonStringifyValue(OrElse(Get(localeData, stringKey), Str(stringKey)))
    IN  IF text.t = "undefined" THEN [threw |-> TRUE, text |-> <<>>]
        ELSE [threw |-> FALSE, text |-> Slice(text.v, 1, Len(text.v) - 1)]

\* The overwrites of the loop over the placeholder locations, up to the
\* first location whose localized string throws (threw).
RECURSIVE StringEdits(_, _)
StringEdits(localeData, placeholderLocations) ==
    IF placeholderLocations = <<>> THEN [threw |-> FALSE, edits |-> <<>>]
    ELSE LET location == Head(placeholderLocations)
             string == localizedString(localeData, location.stringKey)
             rest == StringEdits(localeData, Tail(placeholderLocations))
         IN  IF string.threw THEN [threw |-> TRUE, edits |-> <<>>]
             ELSE [threw |-> rest.threw,
                   edits |-> <<Overwrite(location.index, location.endIndex, string.text)>>
                             \o rest.edits]

FileNameEdits(locale, fileNamePlaceholderLocations) ==
    [i \in 1..Len(fileNamePlaceholderLocations) |->
        Overwrite(fileNamePlaceholderLocations[i],
                  fileNamePlaceholderLocations[i] + Len(fileNameTemplatePlaceholder),
                  locale)]

\* localizeAsset(...): a SourceMapSource (map) or a RawSource of the localized
\* code, or the exception thrown (threw): that of a clashing overwrite
\* (error "overwrite"), or the TypeError of a localized string.
localizeAsset(locale, assetName, placeholderLocations, fileNamePlaceholderLocations, source, map) ==
    LET localeData == LocaleData(options.locales, locale)
        strings == StringEdits(localeData, placeholderLocations)
        edits == IF strings.threw THEN strings.edits
                 ELSE strings.edits \o FileNameEdits(locale, fileNamePlaceholderLocations)
    IN  IF EditsClash(edits)
        THEN [threw |-> TRUE, error |-> "overwrite", code |-> source, map |-> FALSE]
        ELSE IF strings.threw
        THEN [threw |-> TRUE, error |-> "TypeError", code |-> source, map |-> FALSE]
        ELSE [threw |-> FALSE, error |-> "none", code |-> ApplyEdits(source, edits, 0),
              map |-> map]

(***************************************************************************)
(* The configurations and inputs the model ranges over.  Keys and values   *)
(* are printable ASCII.  OptionsSchema admits any string as a locale name: *)
(* among the locale sets is one whose names are the replacement pattern    *)
(* "$&" and the filename placeholder itself.                               *)
(***************************************************************************)
KeyHi == <<"h", "i">>
KeyBye == <<"b", "y", "e">>
KeyEmpty == <<>>
\* A key no catalog has, and the name of a method every object inherits.
KeyToString == <<"t", "o", "S", "t", "r", "i", "n", "g">>
Keys == {KeyHi, KeyBye, KeyEmpty, KeyToString}

En == <<"e", "n">>
Fr == <<"f", "r">>
De == <<"d", "e">>
NoName == <<>>
\* As a replacement of String.replace, "$&" stands for the matched text.
Amp == <<"$", "&">>

EnCatalog == Catalog(<<[key |-> KeyHi, value |-> <<"H", "i">>],
                       [key |-> KeyBye, value |-> <<"B", "y", "e">>]>>)
FrCatalog == Catalog(<<[key |-> KeyHi, value |-> <<"\"", "O", "\\">>]>>)
DeCatalog == Catalog(<<[key |-> KeyHi, value |-> <<>>],
                       [key |-> KeyBye, value |-> <<"T", "s">>]>>)

Locale(name, data) == [name |-> name, data |-> data]

LocaleSets ==
    { <<Locale(En, EnCatalog)>>,
      <<Locale(NoName, EnCatalog)>>,
      <<Locale(En, EnCatalog), Locale(Fr, FrCatalog)>>,
      <<Locale(En, EnCatalog), Locale(Fr, FrCatalog), Locale(De, DeCatalog)>>,
      <<Locale(Amp, EnCatalog), Locale(fileNameTemplatePlaceholder, FrCatalog)>> }

SourceMapSubsets == {Undefined, Arr(<<>>), Arr(<<En>>)}

Configs ==
    { o \in [locales : LocaleSets,
             throwOnMissing : BOOLEAN,
             warnOnUnusedString : BOOLEAN,
             sourceMapForLocales : {Undefined},
             sourceMapsForLocales : SourceMapSubsets] :
        /\ OptionsSchemaParse(o)
        /\ Len(o.locales) = 1 => o.sourceMapsForLocales = Undefined }

(***************************************************************************)
(* constructor(options)                                                    *)
(***************************************************************************)
RECURSIVE AddAll(_, _)
AddAll(set, keys) ==
    IF keys = <<>> THEN set
    ELSE AddAll(IF \E i \in 1..Len(set) : set[i] = Head(keys)
                THEN set ELSE Append(set, Head(keys)),
                Tail(keys))

RECURSIVE TrackAll(_, _, _)
TrackAll(set, locales, names) ==
    IF names = <<>> THEN set
    ELSE TrackAll(AddAll(set, ObjectKeys(LocaleData(locales, Head(names)))),
                  locales, Tail(names))

Constructor(o) ==
    /\ options = o
    /\ localeNames = OwnPropertyKeys([i \in 1..Len(o.locales) |-> o.locales[i].name])
    /\ singleLocale = IF Len(o.locales) = 1 THEN Str(o.locales[1].name) ELSE Undefined
    /\ validatedLocales = {}
    /\ trackStringKeys =
          IF o.warnOnUnusedString
          THEN TrackAll(<<>>, o.locales,
                        OwnPropertyKeys([i \in 1..Len(o.locales) |-> o.locales[i].name]))
          ELSE <<>>

(***************************************************************************)
(* The host: output options, the finished assets, emitAsset.               *)
(***************************************************************************)
MainTemplate == LocaleMarker \o <<".", "j", "s">>
ChunkTemplate == <<"c">> \o LocaleMarker \o <<".", "j", "s">>
PlainTemplate == <<"m", ".", "j", "s">>
StyleTemplate == LocaleMarker \o <<".", "c", "s", "s">>
MapSuffix == <<".", "m", "a", "p">>

OutputOptions ==
    { [filename |-> MainTemplate, chunkFilename |-> ChunkTemplate],
      [filename |-> PlainTemplate, chunkFilename |-> ChunkTemplate] }

Asset(name, code, map, kind) ==
    [name |-> name, source |-> [code |-> code, map |-> map],
     info |-> [kind |-> kind, locale |-> Undefined]]

\* Every constant set on a call expression is a string: the host can render
\* the modules.
Renderable == \A i \in 1..Len(deps) : deps[i].code.t = "string"

\* The text of the finished script: the constants set on the call
\* expressions, and a request of the chunk by its resolved name.
BundleText ==
    Flatten([i \in 1..Len(deps) |-> deps[i].code.v \o <<";">>])
    \o JsonStringify(interpolate(Str(outputOptions.chunkFilename)).v)

FinishedAssets(devtool, styles) ==
    LET main == interpolate(Str(outputOptions.filename)).v
    IN  <<Asset(main, BundleText, devtool, "script")>>
        \o (IF devtool THEN <<Asset(main \o MapSuffix, <<"{", "}">>, FALSE, "map")>>
            ELSE <<>>)
        \o (IF styles
            THEN <<Asset(interpolate(Str(StyleTemplate)).v, <<"c">>, FALSE, "style")>>
            ELSE <<>>)

\* compilation.emitAsset(name, source, info)
emitAsset(as, name, source, info) ==
    LET new == [name |-> name, source |-> source, info |-> info]
    IN  IF \E i \in 1..Len(as) : as[i].name = name
        THEN [i \in 1..Len(as) |-> IF as[i].name = name THEN new ELSE as[i]]
        ELSE Append(as, new)

RECURSIVE Without(_, _)
Without(as, name) ==
    IF as = <<>> THEN <<>>
    ELSE (IF Head(as).name = name THEN <<>> ELSE <<Head(as)>>) \o Without(Tail(as), name)

\* deleteAsset(compilation, assetName, newAssetNames): the outcomes of the
\* helper.  The pass calls it for every callback, whatever the number of
\* variants (line 317), and the helper deletes the original.  For an empty
\* list of new names the sources do not determine the outcome: the original
\* is deleted like any other, or kept, as the specification asks of the pass.
deleteAsset(as, assetName, newAssetNames) ==
    {[assets |-> Without(as, assetName), deleted |-> <<assetName>>]}
    \cup (IF newAssetNames = <<>> THEN {[assets |-> as, deleted |-> <<>>]} ELSE {})

HasAsset(as, name) == \E i \in 1..Len(as) : as[i].name = name

(***************************************************************************)
(* apply(compiler): the hooks, in the order the host calls them.           *)
(***************************************************************************)
NoScan == [on |-> FALSE]
NoPath == [on |-> FALSE]

Init ==
    /\ \E o \in Configs : Constructor(o)
    /\ phase = "constructed"
    /\ outputOptions = [filename |-> <<>>, chunkFilename |-> <<>>]
    /\ calls = <<>>
    /\ deps = <<>>
    /\ warnings = <<>>
    /\ errors = <<>>
    /\ moduleWarnings = <<>>
    /\ passRegistered = FALSE
    /\ assets = <<>>
    /\ work = <<>>
    /\ deleted = <<>>
    /\ scan = NoScan
    /\ resolved = NoPath

\* thisCompilation: both filename templates must include [locale].
\* compilation: the resolver and the call handler are tapped.
ThisCompilation ==
    /\ phase = "constructed"
    /\ \E out \in OutputOptions :
        /\ outputOptions' = out
        /\ phase' = IF /\ Includes(out.filename, LocaleMarker)
                       /\ Includes(out.chunkFilename, LocaleMarker)
                    THEN "compilation" ELSE "aborted"
    /\ UNCHANGED <<pluginVars, compileVars, passVars, scan, resolved>>

\* make: runs before the modules are built.
Make ==
    /\ phase = "compilation"
    /\ passRegistered' = ~Truthy(singleLocale)
    /\ warnings' =
          IF options.warnOnUnusedString /\ Len(trackStringKeys) > 0
          THEN warnings \o [i \in 1..Len(trackStringKeys) |-> UnusedError(trackStringKeys[i])]
          ELSE warnings
    /\ phase' = "make"
    /\ UNCHANGED <<pluginVars, validatedLocales, trackStringKeys, calls, deps, errors,
                   moduleWarnings, outputOptions, assets, work, deleted, scan, resolved>>

(***************************************************************************)
(* insertLocalePlaceholders: the handler of a call of the translation      *)
(* function.                                                               *)
(***************************************************************************)
RECURSIVE SetDelete(_, _)
SetDelete(set, key) ==
    IF set = <<>> THEN <<>>
    ELSE (IF Head(set) = key THEN <<>> ELSE <<Head(set)>>) \o SetDelete(Tail(set), key)

\* placeholderPrefix + base64.encode(stringKey) + placeholderSuffix
Placeholder(stringKey) ==
    placeholderPrefix \o base64encode(stringKey) \o placeholderSuffix

\* The value handed to toConstantDependency as the code of the constant set
\* on the call expression: a string, or undefined where JSON.stringify gives
\* no text.
ConstantFor(stringKey) ==
    IF Truthy(singleLocale)
    THEN JsonStringifyValue(
             OrElse(Get(LocaleData(options.locales, singleLocale.v), stringKey),
                    Str(stringKey)))
    ELSE Str(JsonStringify(Placeholder(stringKey)))

\* A call with exactly one string literal argument.
TranslationCall(stringKey) ==
    /\ phase = "make"
    /\ Len(calls) < MaxCalls
    /\ LET v == validateLocale(stringKey)
       IN  /\ validatedLocales' = v.validatedLocales
           /\ warnings' = v.warnings
           /\ IF v.threw
              THEN /\ errors' = Append(errors, v.error)
                   /\ UNCHANGED <<trackStringKeys, deps>>
              ELSE /\ errors' = errors
                   /\ trackStringKeys' =
                         IF options.warnOnUnusedString
                         THEN SetDelete(trackStringKeys, stringKey)
                         ELSE trackStringKeys
                   /\ deps' = Append(deps, [stringKey |-> stringKey,
                                            code |-> ConstantFor(stringKey)])
           /\ calls' = Append(calls, [accepted |-> TRUE, stringKey |-> stringKey,
                                      threw |-> v.threw])
    /\ UNCHANGED <<pluginVars, phase, outputOptions, moduleWarnings, passVars,
                   scan, resolved>>

\* Any other call shape: a warning on the module, the call left as it is.
ConfusingCall ==
    /\ phase = "make"
    /\ Len(calls) < MaxCalls
    /\ moduleWarnings' = Append(moduleWarnings, [kind |-> "confusing"])
    /\ calls' = Append(calls, [accepted |-> FALSE, stringKey |-> <<>>, threw |-> FALSE])
    /\ UNCHANGED <<pluginVars, phase, outputOptions, validatedLocales, trackStringKeys,
                   deps, warnings, errors, passVars, scan, resolved>>

\* The host seals the compilation: the finished assets exist.  A constant
\* that is no string cannot be rendered, and the build fails.
Seal ==
    /\ phase = "make"
    /\ IF Renderable
       THEN /\ \E devtool \in BOOLEAN, styles \in BOOLEAN :
                  assets' = FinishedAssets(devtool, styles)
            /\ phase' = "sealed"
       ELSE /\ assets' = assets
            /\ phase' = "failed"
    /\ UNCHANGED <<pluginVars, compileVars, outputOptions, passRegistered, work,
                   deleted, scan, resolved>>

(***************************************************************************)
(* generateLocalizedAssets: one callback per asset whose name includes the *)
(* filename placeholder.  The callbacks run in order up to their await     *)
(* (every emitAsset of an asset comes before it); the continuations, which *)
(* delete the originals, run after every callback has reached its await.   *)
(* An exception of localizeAsset rejects the promise of that locale only:  *)
(* the loop goes on, the callback is rejected at its await and never       *)
(* deletes its original, the other callbacks run, and the promise of the   *)
(* hook is rejected.                                                       *)
(***************************************************************************)
RECURSIVE Callbacks(_)
Callbacks(as) ==
    IF as = <<>> THEN <<>>
    ELSE (IF Includes(Head(as).name, fileNameTemplatePlaceholder)
          THEN <<[asset |-> Head(as), localizedAssetNames |-> <<>>, pc |-> "pending",
                  rejected |-> FALSE]>>
          ELSE <<>>)
         \o Callbacks(Tail(as))

GenerateLocalizedAssets ==
    /\ phase = "sealed"
    /\ passRegistered
    /\ work' = Callbacks(assets)
    /\ phase' = "pass"
    /\ UNCHANGED <<pluginVars, compileVars, outputOptions, passRegistered, assets,
                   deleted, scan, resolved>>

\* The locales an asset is expanded for.
localesToIterate(name) ==
    IF isJsFile(name) THEN localeNames
    ELSE IF isSourceMap(name) /\ Truthy(options.sourceMapsForLocales)
         THEN options.sourceMapsForLocales.v
         ELSE localeNames

\* asset.name.replace(fileNameTemplatePlaceholderPattern, locale)
newAssetName(name, locale) == ReplaceAll(name, fileNameTemplatePlaceholderPattern, locale)

SeqIncludes(a, x) == \E i \in 1..Len(a) : a[i] = x

\* The map handed to localizeAsset for a locale.
MapFor(map, locale) ==
    IF ~Truthy(options.sourceMapsForLocales)
       \/ SeqIncludes(options.sourceMapsForLocales.v, locale)
    THEN map ELSE FALSE

Pending == {i \in 1..Len(work) : work[i].pc = "pending"}

Current == CHOOSE i \in Pending : \A j \in Pending : i <= j

\* One turn of the locale loop of the running callback: the variant is
\* named, localized if the asset is a script, and emitted.
EmitVariant ==
    /\ phase = "pass"
    /\ Pending # {}
    /\ LET w == work[Current]
           name == w.asset.name
           locales == localesToIterate(name)
           n == Len(w.localizedAssetNames) + 1
       IN  /\ n <= Len(locales)
           /\ LET locale == locales[n]
                  new == newAssetName(name, locale)
                  sourceString == w.asset.source.code
                  localizedSource ==
                      localizeAsset(locale, new,
                                    locatePlaceholders(sourceString),
                                    findSubstringLocations(sourceString,
                                                           fileNameTemplatePlaceholder),
                                    sourceString,
                                    MapFor(w.asset.source.map, locale))
              IN  /\ work' = [work EXCEPT
                                 ![Current].localizedAssetNames = Append(@, new),
                                 ![Current].rejected =
                                     @ \/ (isJsFile(name) /\ localizedSource.threw)]
                  /\ IF isJsFile(name)
                     THEN IF localizedSource.threw
                          THEN assets' = assets
                          ELSE assets' = emitAsset(assets, new,
                                      [code |-> localizedSource.code,
                                       map |-> localizedSource.map],
                                      [w.asset.info EXCEPT !.locale = Str(locale)])
                     ELSE assets' = emitAsset(assets, new, w.asset.source, w.asset.info)
    /\ UNCHANGED <<pluginVars, compileVars, outputOptions, phase, passRegistered,
                   deleted, scan, resolved>>

\* The running callback has gone through every locale and reaches its
\* await, at which it is rejected if a locale has thrown.
AwaitVariants ==
    /\ phase = "pass"
    /\ Pending # {}
    /\ Len(work[Current].localizedAssetNames)
          = Len(localesToIterate(work[Current].asset.name))
    /\ work' = [work EXCEPT ![Current].pc =
                                IF work[Current].rejected THEN "rejected" ELSE "awaiting"]
    /\ UNCHANGED <<pluginVars, compileVars, outputOptions, phase, passRegistered,
                   assets, deleted, scan, resolved>>

\* The continuation of a callback: the original unlocalized asset is deleted.
DeleteOriginal(i) ==
    /\ phase = "pass"
    /\ Pending = {}
    /\ work[i].pc = "awaiting"
    /\ \E d \in deleteAsset(assets, work[i].asset.name, work[i].localizedAssetNames) :
           /\ assets' = d.assets
           /\ deleted' = deleted \o d.deleted
    /\ work' = [work EXCEPT ![i].pc = "done"]
    /\ UNCHANGED <<pluginVars, compileVars, outputOptions, phase, passRegistered,
                   scan, resolved>>

\* The asset hook has run: the host writes the output, or, the promise of
\* the hook rejected, fails the build.
Finish ==
    /\ \/ phase = "sealed" /\ ~passRegistered
       \/ phase = "pass" /\ \A i \in 1..Len(work) : work[i].pc \in {"done", "rejected"}
    /\ phase' = IF \E i \in 1..Len(work) : work[i].pc = "rejected"
                THEN "failed" ELSE "done"
    /\ UNCHANGED <<pluginVars, compileVars, outputOptions, passVars, scan, resolved>>

Next ==
    \/ ThisCompilation
    \/ Make
    \/ \E stringKey \in Keys : TranslationCall(stringKey)
    \/ ConfusingCall
    \/ Seal
    \/ GenerateLocalizedAssets
    \/ EmitVariant
    \/ AwaitVariants
    \/ \E i \in 1..Len(work) : DeleteOriginal(i)
    \/ Finish

Spec == Init /\ [][Next]_vars

(***************************************************************************)
(* The scanner and the localizer on their own: a text is put together from *)
(* pieces, scanned once, and localized for a locale.                       *)
(***************************************************************************)
KeyA == <<"a">>
Xx == <<"x", "x">>

Filler(text) == [kind |-> "filler", text |-> text]
Embedded(stringKey) == [kind |-> "placeholder", text |-> Placeholder(stringKey),
                        stringKey |-> stringKey]
FileName == [kind |-> "filename", text |-> fileNameTemplatePlaceholder]
Raw(text) == [kind |-> "raw", text |-> text]

Pieces ==
    { Filler(<<"x", ";">>), Filler(<<"|">>),
      Embedded(KeyHi), Embedded(KeyBye), Embedded(KeyA), Embedded(KeyEmpty),
      Embedded(KeyToString),
      FileName,
      Raw(placeholderPrefix),
      Raw(placeholderPrefix \o <<"a", "G", "k">>) }

PieceSeqs == UNION {[1..n -> Pieces] : n \in 0..MaxPieces}

TextOf(pieces) == Flatten([i \in 1..Len(pieces) |-> pieces[i].text])

TextConfigs ==
    { [locales |-> <<Locale(En, EnCatalog), Locale(Fr, FrCatalog),
                     Locale(De, DeCatalog), Locale(Xx, Flat(<<"Z", "z">>))>>,
       throwOnMissing |-> FALSE,
       warnOnUnusedString |-> FALSE,
       sourceMapForLocales |-> Undefined,
       sourceMapsForLocales |-> Undefined] }

Idle ==
    /\ outputOptions = [filename |-> <<>>, chunkFilename |-> <<>>]
    /\ calls = <<>>
    /\ deps = <<>>
    /\ warnings = <<>>
    /\ errors = <<>>
    /\ moduleWarnings = <<>>
    /\ passRegistered = FALSE
    /\ assets = <<>>
    /\ work = <<>>
    /\ deleted = <<>>

InitText ==
    /\ \E o \in TextConfigs : Constructor(o)
    /\ phase = "text"
    /\ Idle
    /\ \E pieces \in PieceSeqs :
          scan = [stage |-> "text", pieces |-> pieces, text |-> TextOf(pieces)]
    /\ resolved = NoPath

\* locatePlaceholders(sourceString) and
\* findSubstringLocations(sourceString, fileNameTemplatePlaceholder)
Locate ==
    /\ scan.stage = "text"
    /\ scan' = [stage |-> "located", pieces |-> scan.pieces, text |-> scan.text,
                placeholderLocations |-> locatePlaceholders(scan.text),
                fileNamePlaceholderLocations |->
                    findSubstringLocations(scan.text, fileNameTemplatePlaceholder)]
    /\ UNCHANGED <<pluginVars, compileVars, phase, outputOptions, passVars, resolved>>

\* localizeAsset(locale, ...) on the located text.
Localize(locale) ==
    /\ scan.stage = "located"
    /\ scan' = [stage |-> "localized", pieces |-> scan.pieces, text |-> scan.text,
                placeholderLocations |-> scan.placeholderLocations,
                fileNamePlaceholderLocations |-> scan.fileNamePlaceholderLocations,
                locale |-> locale,
                out |-> localizeAsset(locale, <<>>, scan.placeholderLocations,
                                      scan.fileNamePlaceholderLocations, scan.text, FALSE)]
    /\ UNCHANGED <<pluginVars, compileVars, phase, outputOptions, passVars, resolved>>

NextText ==
    \/ Locate
    \/ \E i \in 1..Len(localeNames) : Localize(localeNames[i])

SpecText == InitText /\ [][NextText]_vars

(***************************************************************************)
(* The resolver on its own: the host hands a path to the assetPath hook,   *)
(* and may hand the result back.                                           *)
(***************************************************************************)
Paths ==
    { Str(MainTemplate), Str(ChunkTemplate), Str(PlainTemplate), Str(StyleTemplate),
      Str(LocaleMarker \o <<"/">> \o LocaleMarker), Str(<<"[", "l", "o", "c", "]">>),
      Str(<<>>), Function }

PathLocaleSets ==
    { <<Locale(En, EnCatalog)>>,
      <<Locale(NoName, EnCatalog)>>,
      <<Locale(<<"x">> \o LocaleMarker, EnCatalog)>>,
      <<Locale(<<"$", "&">>, EnCatalog)>>,
      <<Locale(En, EnCatalog), Locale(Fr, FrCatalog)>>,
      <<Locale(En, EnCatalog), Locale(LocaleMarker, FrCatalog)>> }

PathConfigs ==
    [locales : PathLocaleSets,
     throwOnMissing : {FALSE},
     warnOnUnusedString : {FALSE},
     sourceMapForLocales : {Undefined},
     sourceMapsForLocales : {Undefined}]

InitPath ==
    /\ \E o \in PathConfigs : Constructor(o)
    /\ phase = "path"
    /\ Idle
    /\ scan = NoScan
    /\ \E path \in Paths : resolved = [path |-> path, given |-> path, times |-> 0]

\* One call of the tapped function on the path.
Interpolate ==
    /\ resolved.times < MaxInterpolations
    /\ resolved' = [path |-> interpolate(resolved.path), given |-> resolved.path,
                    times |-> resolved.times + 1]
    /\ UNCHANGED <<pluginVars, compileVars, phase, outputOptions, passVars, scan>>

NextPath == Interpolate

SpecPath == InitPath /\ [][NextPath]_vars

(***************************************************************************)
(* The build under the options that bear on the names of the variants: a   *)
(* locale whose name is a replacement pattern of String.replace, and       *)
(* source-map subsets under either spelling of the option, of configured   *)
(* and of unconfigured locales.  OptionsSchema admits any string as a      *)
(* locale name and validates the subset named sourceMapForLocales.         *)
(***************************************************************************)
Dollar == <<"$", "$">>

\* A locale whose name is an array index: Object.keys lists it first.
One == <<"1">>

PassLocaleSets ==
    { <<Locale(En, EnCatalog), Locale(Fr, FrCatalog)>>,
      <<Locale(Dollar, EnCatalog), Locale(En, EnCatalog)>>,
      <<Locale(Fr, FrCatalog), Locale(One, EnCatalog)>> }

PassSubsets == {Undefined, Arr(<<>>), Arr(<<En>>), Arr(<<De>>)}

PassConfigs ==
    { o \in [locales : PassLocaleSets,
             throwOnMissing : {FALSE},
             warnOnUnusedString : {FALSE},
             sourceMapForLocales : {Undefined, Arr(<<En>>), Arr(<<De>>)},
             sourceMapsForLocales : PassSubsets] :
        OptionsSchemaParse(o) }

InitPass ==
    /\ \E o \in PassConfigs : Constructor(o)
    /\ phase = "constructed"
    /\ outputOptions = [filename |-> <<>>, chunkFilename |-> <<>>]
    /\ Idle
    /\ scan = NoScan
    /\ resolved = NoPath

SpecPass == InitPass /\ [][Next]_vars

(***************************************************************************)
(* Properties.                                                             *)
(***************************************************************************)
Range(a) == {a[i] : i \in 1..Len(a)}

Count(a, x) == Cardinality({i \in 1..Len(a) : a[i] = x})

AllPresent(names) == \A k \in 1..Len(names) : HasAsset(assets, names[k])

\* C1: in every state of the pass, for each original whose name includes the
\* filename placeholder and for which at least one variant is produced, the
\* original or at least one of its variants is among the assets; and once the
\* original has been deleted, a variant has been named for every locale it is
\* expanded for and all of these variants are among the assets.  (What
\* becomes of an original for which no variant is produced is decided inside
\* the deleteAsset helper, and is left out of the formula.)
C1_OriginalOrVariantExists ==
    \A i \in 1..Len(work) :
        LET w == work[i]
            names == w.localizedAssetNames
        IN  names # <<>> =>
               /\ \/ HasAsset(assets, w.asset.name)
                  \/ \E k \in 1..Len(names) : HasAsset(assets, names[k])
               /\ w.pc = "done" =>
                     /\ Len(names) = Len(localesToIterate(w.asset.name))
                     /\ AllPresent(names)

\* C2: once the callback of a script asset has run to its end, whether it
\* returned or was rejected, it has emitted one variant per configured
\* locale, under pairwise distinct names, all of them among the assets, and
\* its original has been deleted exactly once; the callback of a .js.map
\* asset, when a source-map subset is configured, has emitted as many
\* variants as the subset has locales.
C2_VariantCount ==
    \A i \in 1..Len(work) :
        LET w == work[i]
            names == w.localizedAssetNames
        IN  w.pc \in {"done", "rejected"} =>
              /\ isJsFile(w.asset.name) =>
                    /\ Len(names) = Len(options.locales)
                    /\ Cardinality(Range(names)) = Len(options.locales)
                    /\ AllPresent(names)
                    /\ Count(deleted, w.asset.name) = 1
                    /\ ~HasAsset(assets, w.asset.name)
              /\ (isSourceMap(w.asset.name) /\ options.sourceMapsForLocales.t = "array") =>
                    Len(names) = Len(options.sourceMapsForLocales.v)

\* The value a record catalog holds for a key, or the key where it has none.
ValueOrKey(catalog, stringKey) ==
    IF \E i \in 1..Len(catalog.entries) : catalog.entries[i].key = stringKey
    THEN catalog.entries[CHOOSE i \in 1..Len(catalog.entries) :
                             catalog.entries[i].key = stringKey].value
    ELSE stringKey

\* C5: with exactly one locale, whatever its name, no string-key placeholder
\* and no filename placeholder is emitted: every accepted call is replaced by
\* the literal value, every [locale] segment of a filename by the locale's
\* name, and generateLocalizedAssets is never registered or run.
C5_SingleLocaleNoPlaceholders ==
    Len(options.locales) = 1 =>
        /\ ~passRegistered
        /\ phase # "pass"
        /\ \A i \in 1..Len(deps) :
              /\ deps[i].code.t = "string" =>
                    ~Includes(deps[i].code.v, placeholderPrefix)
              /\ deps[i].code =
                    Str(JsonStringify(ValueOrKey(options.locales[1].data,
                                                 deps[i].stringKey)))
        /\ \A i \in 1..Len(assets) :
              /\ ~Includes(assets[i].name, fileNameTemplatePlaceholder)
              /\ ~Includes(assets[i].name, LocaleMarker)
        /\ assets # <<>> =>
              assets[1].name = options.locales[1].name \o <<".", "j", "s">>

\* The locales whose catalog has no entry for the key.
Lacking(stringKey) ==
    {options.locales[i].name : i \in
        {j \in 1..Len(options.locales) :
            \A e \in 1..Len(options.locales[j].data.entries) :
                options.locales[j].data.entries[e].key # stringKey}}

NamesKeyAndLocales(error, stringKey) ==
    /\ error.kind = "missing"
    /\ error.stringKey = stringKey
    /\ Range(error.locales) = Lacking(stringKey)
    /\ Len(error.locales) = Cardinality(Lacking(stringKey))

\* The step is the handling of an accepted call for the key.
IsCallOf(stringKey) ==
    /\ Len(calls') = Len(calls) + 1
    /\ calls'[Len(calls')].accepted
    /\ calls'[Len(calls')].stringKey = stringKey

\* C6: on the first validateLocale call for a key that some locale lacks: with
\* throwOnMissing the call throws an error naming the key and every locale
\* lacking it and adds nothing to the warnings; without it the call adds
\* exactly one such warning and returns.  For a key every catalog has, the
\* call neither throws nor warns.
C6_FirstValidation ==
    [][\A stringKey \in Keys :
          (IsCallOf(stringKey) /\ stringKey \notin validatedLocales) =>
              IF Lacking(stringKey) # {}
              THEN IF options.throwOnMissing
                   THEN /\ calls'[Len(calls')].threw
                        /\ Len(errors') = Len(errors) + 1
                        /\ NamesKeyAndLocales(errors'[Len(errors')], stringKey)
                        /\ warnings' = warnings
                   ELSE /\ ~calls'[Len(calls')].threw
                        /\ errors' = errors
                        /\ Len(warnings') = Len(warnings) + 1
                        /\ SubSeq(warnings', 1, Len(warnings)) = warnings
                        /\ NamesKeyAndLocales(warnings'[Len(warnings')], stringKey)
              ELSE /\ ~calls'[Len(calls')].threw
                   /\ errors' = errors
                   /\ warnings' = warnings]_vars

\* First calls have been made for a key every catalog has and for a key two
\* of three locales lack, and the one warning names those two.
C6_Witness ==
    /\ validatedLocales = {KeyHi, KeyBye}
    /\ errors = <<>>
    /\ Len(warnings) = 1
    /\ warnings[1].kind = "missing"
    /\ warnings[1].stringKey = KeyBye
    /\ Len(warnings[1].locales) = 1
    /\ Len(options.locales) = 3

\* A first call for a key a locale lacks has thrown, and nothing is warned.
C6_WitnessThrown ==
    /\ options.throwOnMissing
    /\ Len(errors) = 1
    /\ warnings = <<>>

\* The diagnostics reported for a key being missing.
MissingReports(stringKey) ==
    Cardinality({i \in 1..Len(warnings) :
                    warnings[i].kind = "missing" /\ warnings[i].stringKey = stringKey})
    + Cardinality({i \in 1..Len(errors) : errors[i].stringKey = stringKey})

\* C7: every call after the first for a key has the outcome of the first
\* call for that key: it throws if and only if the first call threw; and the
\* missing-key diagnostic of a key is reported exactly once if a locale lacks
\* the key, and never otherwise.
C7_ValidatedOnce ==
    /\ \A i, j \in 1..Len(calls) :
          (/\ i < j
           /\ calls[i].accepted /\ calls[j].accepted
           /\ calls[i].stringKey = calls[j].stringKey)
          => calls[j].threw = calls[i].threw
    /\ \A stringKey \in Keys :
          MissingReports(stringKey) =
              IF stringKey \in validatedLocales /\ Lacking(stringKey) # {}
              THEN 1 ELSE 0

\* The keys the catalogs define.
CatalogKeys ==
    UNION {Range(ObjectKeys(options.locales[i].data)) : i \in 1..Len(options.locales)}

\* A compiled translation call referenced the key.
Referenced(stringKey) ==
    \E i \in 1..Len(calls) : calls[i].accepted /\ calls[i].stringKey = stringKey

UnusedReports(stringKey) ==
    Cardinality({i \in 1..Len(warnings) :
                    warnings[i].kind = "unused" /\ warnings[i].stringKey = stringKey})

\* C8: with warnOnUnusedString, an unused-key warning is reported for a
\* catalog key if and only if no compiled translation call referenced the key
\* during the build, once per key and at the end of the build, when every call
\* has been seen: no key that a call referenced is ever reported, and at the
\* end every catalog key that none referenced is.  Without the switch no
\* unused-key warning is reported.
C8_UnusedKeysReported ==
    /\ ~options.warnOnUnusedString =>
          \A stringKey \in CatalogKeys \cup Keys : UnusedReports(stringKey) = 0
    /\ \A stringKey \in CatalogKeys \cup Keys :
          /\ UnusedReports(stringKey) <= 1
          /\ UnusedReports(stringKey) = 1 =>
                stringKey \in CatalogKeys /\ ~Referenced(stringKey)
    /\ (options.warnOnUnusedString /\ phase = "done") =>
          \A stringKey \in CatalogKeys :
              ~Referenced(stringKey) => UnusedReports(stringKey) = 1

\* C9: the function tapped on the assetPath hook is idempotent, for a single
\* locale of any name and for several locales: applied to a path it has
\* resolved it returns the path as it is, and a resolved path has no [locale]
\* segment left.
C9_InterpolateIdempotent ==
    /\ resolved.times >= 2 => resolved.path = resolved.given
    /\ (resolved.times >= 1 /\ resolved.path.t = "string") =>
          ~Includes(resolved.path.v, LocaleMarker)

\* The text is what the compile phase produces: filler free of the prefix,
\* placeholders set by insertLocalePlaceholders, filename placeholders.
BuiltByEmbedding == \A i \in 1..Len(scan.pieces) : scan.pieces[i].kind # "raw"

\* C3: for a script text and a configured locale, the text localizeAsset
\* returns, fed with the locations locatePlaceholders and
\* findSubstringLocations computed on that text, has no occurrence of the
\* string-key placeholder prefix and none of the filename placeholder.  Stated
\* of the texts the compile phase produces, where every occurrence of the
\* prefix starts a placeholder that insertLocalePlaceholders has set.
C3_NoPlaceholderLeft ==
    (scan.stage = "localized" /\ BuiltByEmbedding) =>
        /\ ~scan.out.threw
        /\ ~Includes(scan.out.code, placeholderPrefix)
        /\ ~Includes(scan.out.code, fileNameTemplatePlaceholder)

\* The locations of the placeholders embedded in a text, from its pieces.
RECURSIVE EmbeddedAt(_, _)
EmbeddedAt(pieces, offset) ==
    IF pieces = <<>> THEN <<>>
    ELSE (IF Head(pieces).kind = "placeholder"
          THEN <<[stringKey |-> Head(pieces).stringKey,
                  index |-> offset,
                  endIndex |-> offset + Len(Head(pieces).text)]>>
          ELSE <<>>)
         \o EmbeddedAt(Tail(pieces), offset + Len(Head(pieces).text))

\* C4: for a text built by embedding N placeholders, prefix +
\* base64.encode(key) + '|', at known offsets, for any keys of the alphabet,
\* locatePlaceholders returns exactly N locations: index the start of the
\* placeholder, endIndex one past its suffix, stringKey the embedded key.
C4_LocatesEveryEmbedded ==
    (scan.stage # "text" /\ BuiltByEmbedding) =>
        scan.placeholderLocations = EmbeddedAt(scan.pieces, 0)

\* What the localized string of a key is to be for a locale: the escaped
\* value of the catalog that has the key, the single string of a flattened
\* locale, the bare key where the catalog has no entry for the key.
LocalizedValue(localeData, stringKey) ==
    IF localeData.kind = "string" THEN JsonEscape(localeData.text)
    ELSE IF \E i \in 1..Len(localeData.entries) : localeData.entries[i].key = stringKey
         THEN JsonEscape(ValueOrKey(localeData, stringKey))
         ELSE stringKey

\* C10: for every locale, localizeAsset replaces each located placeholder span
\* by the escaped value the locale's catalog holds for the key whenever it
\* holds one, whatever the value (the single string of a flattened locale for
\* every key), by the bare key exactly when the catalog has no entry, each
\* filename placeholder span by the locale's name, and leaves the text outside
\* the spans as it is.
C10_ReplacesByCatalogValue ==
    scan.stage = "localized" =>
        /\ ~scan.out.threw
        /\ scan.out.code =
              ApplyEdits(scan.text,
                  [i \in 1..Len(scan.placeholderLocations) |->
                      Overwrite(scan.placeholderLocations[i].index,
                                scan.placeholderLocations[i].endIndex,
                                LocalizedValue(LocaleData(options.locales, scan.locale),
                                               scan.placeholderLocations[i].stringKey))]
                  \o FileNameEdits(scan.locale, scan.fileNamePlaceholderLocations),
                  0)

\* s with every occurrence of pat replaced by the text itself, character for
\* character.
RECURSIVE Substituted(_, _, _)
Substituted(s, pat, text) ==
    IF s = <<>> THEN <<>>
    ELSE IF MatchAt(s, pat, 0)
         THEN text \o Substituted(Slice(s, Len(pat), Len(s)), pat, text)
         ELSE <<Head(s)>> \o Substituted(Tail(s), pat, text)

\* The locales a non-script asset is to be copied for.
CopyLocales(name) ==
    IF isSourceMap(name) /\ options.sourceMapsForLocales.t = "array"
    THEN options.sourceMapsForLocales.v
    ELSE localeNames

AssetNamed(as, name) == as[CHOOSE i \in 1..Len(as) : as[i].name = name]

\* C11: once the callback of a non-script asset whose name includes the
\* filename placeholder has emitted its copies, there is, for each configured
\* locale (for a .js.map asset with a source-map subset: for each locale of
\* the subset, and for no other), one copy among the assets whose source and
\* info are the original's, under the original's name with every occurrence
\* of the placeholder replaced by the locale's name; and the variant of a
\* script for a locale outside a configured subset has no source map.
C11_CopiesPerLocale ==
    \A i \in 1..Len(work) :
        LET w == work[i]
            name == w.asset.name
            names == w.localizedAssetNames
        IN  w.pc # "pending" =>
              /\ ~isJsFile(name) =>
                    /\ Len(names) = Len(CopyLocales(name))
                    /\ \A k \in 1..Len(CopyLocales(name)) :
                          LET copy == Substituted(name, fileNameTemplatePlaceholder,
                                                  CopyLocales(name)[k])
                          IN  /\ names[k] = copy
                              /\ HasAsset(assets, copy)
                              /\ AssetNamed(assets, copy).source = w.asset.source
                              /\ AssetNamed(assets, copy).info = w.asset.info
              /\ (isJsFile(name) /\ options.sourceMapsForLocales.t = "array") =>
                    \A k \in 1..Len(localeNames) :
                        (/\ ~SeqIncludes(options.sourceMapsForLocales.v, localeNames[k])
                         /\ HasAsset(assets, names[k])) =>
                            AssetNamed(assets, names[k]).source.map = FALSE

\* The spans handed to localizeAsset, as pairs <<start, end>>: those of the
\* placeholder locations, then those of the filename placeholders.
SpansOf(placeholderLocations, fileNamePlaceholderLocations) ==
    [i \in 1..Len(placeholderLocations) |->
        <<placeholderLocations[i].index, placeholderLocations[i].endIndex>>]
    \o [i \in 1..Len(fileNamePlaceholderLocations) |->
        <<fileNamePlaceholderLocations[i],
          fileNamePlaceholderLocations[i] + Len(fileNameTemplatePlaceholder)>>]

\* C12: for every text, the spans of the locations locatePlaceholders returns
\* together with the fixed-width spans of the filename placeholders are
\* non-empty, lie within the text and are pairwise disjoint, whatever the
\* text holds (a prefix that starts no placeholder included), and so
\* localizeAsset applies its overwrites without a clash.
C12_SpansDisjoint ==
    scan.stage # "text" =>
        LET spans == SpansOf(scan.placeholderLocations,
                             scan.fileNamePlaceholderLocations)
        IN  /\ \A i \in 1..Len(spans) :
                  /\ 0 <= spans[i][1]
                  /\ spans[i][1] < spans[i][2]
                  /\ spans[i][2] <= Len(scan.text)
            /\ \A i, j \in 1..Len(spans) :
                  i < j => \/ spans[i][2] <= spans[j][1]
                           \/ spans[j][2] <= spans[i][1]
            /\ scan.stage = "localized" => scan.out.error # "overwrite"

\* A text in which a bare prefix comes right before a placeholder, followed
\* by a filename placeholder, has been localized: the one location is that of
\* the placeholder, after the bare prefix.
C12_Witness ==
    /\ scan.stage = "localized"
    /\ scan.pieces = <<Raw(placeholderPrefix), Embedded(KeyHi), FileName>>
    /\ scan.placeholderLocations =
          <<[stringKey |-> KeyHi,
             index |-> Len(placeholderPrefix),
             endIndex |-> Len(placeholderPrefix) + Len(Placeholder(KeyHi))]>>
    /\ Len(scan.fileNamePlaceholderLocations) = 1
    /\ ~scan.out.threw

\* C13: every variant the pass has emitted is named after a configured
\* locale: its name is the original's name with the filename placeholder
\* replaced by a key of options.locales; and the locales a callback has
\* iterated over, the source-map subset included, are keys of options.locales,
\* as the validation of the options is to guarantee.
C13_VariantsOfConfiguredLocales ==
    \A i \in 1..Len(work) :
        LET w == work[i]
        IN  \A k \in 1..Len(w.localizedAssetNames) :
                /\ \E n \in 1..Len(options.locales) :
                      w.localizedAssetNames[k]
                          = newAssetName(w.asset.name, options.locales[n].name)
                /\ HasLocale(options.locales, localesToIterate(w.asset.name)[k])

====
